---- MODULE Spec2Model ----
(* The fuel-log pipeline of app.py as a state machine: one table is loaded,  *)
(* its schema is checked, and the script body runs top to bottom, emitting   *)
(* page elements as it goes; any exception ends the run in the handler.      *)
(*                                                                           *)
(* Numbers are fixed-point hundredths (1.5 litres is 150, 1000 km is         *)
(* 100000), so round(x, 2) of a quotient a/b is RoundHalfEven(100*a, b).     *)
(* A cell is a record [k, v]: k is "num", "nan", "inf", "ninf", "frac"       *)
(* (v = <<numerator, denominator>>), "str" (v = the characters), "ts"        *)
(* (v = <<year, month, day>>), "nat", "period" (v = <<year, month>>) or      *)
(* "unset" (a name the script has not bound yet).                            *)
EXTENDS Integers, Sequences, FiniteSets, TLC

VARIABLES raw, df, total_litres, total_spent, total_distance, avg_mileage,
          monthly, out, pc

vars == <<raw, df, total_litres, total_spent, total_distance, avg_mileage,
          monthly, out, pc>>

(* ---------------------------------------------------------------- bounds *)
MaxRows == 3

(* ------------------------------------------------------------- constants *)
SKIP_FIRST_MILEAGE == 2

expected_cols == {"Date", "Odometer", "Fuel_Litres", "Amount_Spent"}

(* ------------------------------------------------------------------ cells *)
Num(x) == [k |-> "num", v |-> x]

NaN == [k |-> "nan", v |-> 0]

PosInf == [k |-> "inf", v |-> 0]

NegInf == [k |-> "ninf", v |-> 0]

NaT == [k |-> "nat", v |-> 0]

Unset == [k |-> "unset", v |-> 0]

Str(s) == [k |-> "str", v |-> s]

Range(s) == {s[i] : i \in 1..Len(s)}

(* -------------------------------------------------- date parsing (line 51) *)
DigitChars == <<"0", "1", "2", "3", "4", "5", "6", "7", "8", "9">>

IsDigit(c) == \E d \in 1..10 : DigitChars[d] = c

Digit(c) == (CHOOSE d \in 1..10 : DigitChars[d] = c) - 1

(* ParseYM without the month range check *)
ParseYM_NoRangeCheck(s) ==
  IF /\ Len(s) \in {6, 7}
     /\ \A i \in 1..4 : IsDigit(s[i])
     /\ s[5] = "-"
     /\ \A i \in 6..Len(s) : IsDigit(s[i])
  THEN LET y == 1000 * Digit(s[1]) + 100 * Digit(s[2]) + 10 * Digit(s[3]) + Digit(s[4])
           m == IF Len(s) = 6 THEN Digit(s[6]) ELSE 10 * Digit(s[6]) + Digit(s[7])
       IN [k |-> "ts", v |-> <<y, m, 1>>]
  ELSE NaT

(* strptime("%Y-%m"): four digits, a dash, a one- or two-digit month 1..12,  *)
(* nothing left over; errors="coerce" turns every failure into NaT.          *)
ParseYM(s) ==
  IF /\ Len(s) \in {6, 7}
     /\ \A i \in 1..4 : IsDigit(s[i])
     /\ s[5] = "-"
     /\ \A i \in 6..Len(s) : IsDigit(s[i])
  THEN LET y == 1000 * Digit(s[1]) + 100 * Digit(s[2]) + 10 * Digit(s[3]) + Digit(s[4])
           m == IF Len(s) = 6 THEN Digit(s[6]) ELSE 10 * Digit(s[6]) + Digit(s[7])
       IN IF m \in 1..12 THEN [k |-> "ts", v |-> <<y, m, 1>>] ELSE NaT
  ELSE NaT

to_datetime(col) ==
  [i \in 1..Len(col) |-> IF col[i].k = "str" THEN ParseYM(col[i].v) ELSE NaT]

isna(c) == c.k \in {"nan", "nat"}

(* Series.dt.to_period("M") (line 72) *)
to_period(col) ==
  [i \in 1..Len(col) |->
     IF col[i].k = "ts" THEN [k |-> "period", v |-> <<col[i].v[1], col[i].v[2]>>]
     ELSE NaT]

(* ------------------------------------------------------------- arithmetic *)
(* round-half-to-even of n/d, d # 0 *)
RoundHalfEven(n, d) ==
  LET nn == IF d < 0 THEN -n ELSE n
      dd == IF d < 0 THEN -d ELSE d
      q == nn \div dd
      r == nn % dd
  IN IF 2 * r < dd THEN q
     ELSE IF 2 * r > dd THEN q + 1
     ELSE IF q % 2 = 0 THEN q ELSE q + 1

(* float subtraction: NaN if either side is missing *)
Sub(a, b) == IF a.k = "num" /\ b.k = "num" THEN Num(a.v - b.v) ELSE NaN

(* diff with a falling reading clamped to 0 *)
diff_Clamped(col) ==
  [i \in 1..Len(col) |->
     IF i = 1 THEN NaN
     ELSE IF col[i].k = "num" /\ col[i - 1].k = "num" /\ col[i].v < col[i - 1].v
          THEN Num(0) ELSE Sub(col[i], col[i - 1])]

(* Series.diff() (line 56): the first row has no predecessor *)
diff(col) ==
  [i \in 1..Len(col) |-> IF i = 1 THEN NaN ELSE Sub(col[i], col[i - 1])]

(* Series.fillna(0) (line 56) *)
fillna0(col) == [i \in 1..Len(col) |-> IF isna(col[i]) THEN Num(0) ELSE col[i]]

(* Python truthiness of a float: only zero is falsy, NaN is truthy *)
Truthy(c) == ~(c.k = "num" /\ c.v = 0)

(* c != 0 on floats: NaN != 0 is true *)
NotZero(c) == ~(c.k = "num" /\ c.v = 0)

(* round(distance / fuel, 2) for a fuel that passed the guard *)
RoundedQuotient(d, f) ==
  IF d.k = "num" /\ f.k = "num"
  THEN Num(RoundHalfEven(100 * d.v, f.v))
  ELSE NaN

(* the lambda of lines 59-62 *)
MileageOf(distance, fuel) ==
  IF Truthy(fuel) /\ NotZero(fuel)
  THEN RoundedQuotient(distance, fuel)
  ELSE Num(0)

RECURSIVE SumSkipNa(_)
(* Series.sum(): missing values are skipped, the empty sum is 0 *)
SumSkipNa(col) ==
  IF Len(col) = 0 THEN 0
  ELSE (IF col[1].k = "num" THEN col[1].v ELSE 0) + SumSkipNa(Tail(col))

RECURSIVE PySum(_)
(* builtin sum() over a list of floats: NaN propagates, the empty sum is 0 *)
PySum(lst) ==
  IF Len(lst) = 0 THEN Num(0)
  ELSE LET rest == PySum(Tail(lst))
       IN IF lst[1].k = "num" /\ rest.k = "num" THEN Num(lst[1].v + rest.v) ELSE NaN

(* the slice taken one row too early *)
SliceFrom_OffByOne(lst, n) ==
  IF n - 1 >= Len(lst) THEN <<>> ELSE SubSeq(lst, n, Len(lst))

(* list[SKIP_FIRST_MILEAGE:] *)
SliceFrom(lst, n) ==
  IF n >= Len(lst) THEN <<>> ELSE SubSeq(lst, n + 1, Len(lst))

(* ---------------------------------------------------------- data frames *)
(* A frame is [n, cols, data]: n rows, the column names in order, and one    *)
(* sequence of n cells per column.                                           *)
Column(frame, name) == frame.data[name]

(* df[name] = col: replaces the column, or appends a new one on the right *)
SetCol(frame, name, col) ==
  [n |-> frame.n,
   cols |-> IF name \in Range(frame.cols) THEN frame.cols ELSE Append(frame.cols, name),
   data |-> [c \in Range(frame.cols) \cup {name} |->
               IF c = name THEN col ELSE frame.data[c]]]

(* one page element: kind, label, and for the schema error the two lists    *)
(* its message prints                                                        *)
Elem(kind, label) == [kind |-> kind, label |-> label, required |-> {}, found |-> <<>>]

(* the message listing the required columns as the ones found *)
SchemaErrorElem_SwappedFound(frame) ==
  [kind |-> "error", label |-> "Missing required columns",
   required |-> expected_cols, found |-> SubSeq(<<"Date", "Odometer", "Fuel_Litres", "Amount_Spent">>, 1, 4)]

(* the message of line 37 *)
SchemaErrorElem(frame) ==
  [kind |-> "error", label |-> "Missing required columns",
   required |-> expected_cols, found |-> frame.cols]

(* the handler of lines 126-127: str(e) is shown after a fixed prefix *)
ExceptionElem(exc) ==
  [kind |-> "error", label |-> exc, required |-> {}, found |-> <<>>]

Frac(num, den) == [k |-> "frac", v |-> <<num, den>>]

(* a plain integer (a count), not hundredths *)
Count(c) == [k |-> "int", v |-> c]

(* ------------------------------------------------- groupby / agg (75-85) *)
RECURSIVE FilterBy(_, _, _)
(* the cells of col whose row has the given key, in row order *)
FilterBy(col, keycol, key) ==
  IF Len(col) = 0 THEN <<>>
  ELSE LET rest == FilterBy(Tail(col), Tail(keycol), key)
       IN IF keycol[1] = key THEN <<col[1]>> \o rest ELSE rest

(* groupby drops missing keys (dropna=True) *)
GroupKeys(keycol) == {keycol[i] : i \in {j \in 1..Len(keycol) : keycol[j].k = "period"}}

PeriodOrd(p) == 12 * p.v[1] + p.v[2]

RECURSIVE SortedKeys(_)
(* groupby sorts the group keys *)
SortedKeys(S) ==
  IF S = {} THEN <<>>
  ELSE LET first == CHOOSE p \in S : \A q \in S : PeriodOrd(p) <= PeriodOrd(q)
       IN <<first>> \o SortedKeys(S \ {first})

Present(col) == SelectSeq(col, LAMBDA c : c.k = "num")

(* "count": the number of non-missing cells *)
CountNotNa(col) == Len(Present(col))

(* "mean": missing values are skipped; NaN when nothing is left *)
MeanSkipNa(col) ==
  IF CountNotNa(col) = 0 THEN NaN ELSE Frac(SumSkipNa(col), CountNotNa(col))

(* "max" *)
MaxSkipNa(col) ==
  IF CountNotNa(col) = 0 THEN NaN
  ELSE LET P == Present(col)
       IN Num(CHOOSE x \in {P[i].v : i \in 1..Len(P)} : \A i \in 1..Len(P) : P[i].v <= x)

(* "min" *)
MinSkipNa(col) ==
  IF CountNotNa(col) = 0 THEN NaN
  ELSE LET P == Present(col)
       IN Num(CHOOSE x \in {P[i].v : i \in 1..Len(P)} : \A i \in 1..Len(P) : P[i].v >= x)

(* the monthly row with the distance re-derived inside the group *)
AggRow_GroupDiff(frame, key) ==
  LET g(name) == FilterBy(Column(frame, name), Column(frame, "Month"), key)
  IN [Month |-> key,
      Total_Distance |-> Num(SumSkipNa(fillna0(diff(g("Odometer"))))),
      Total_Fuel_Litres |-> Num(SumSkipNa(g("Fuel_Litres"))),
      Total_Spent |-> Num(SumSkipNa(g("Amount_Spent"))),
      Avg_Mileage |-> MeanSkipNa(g("Mileage_kmpl")),
      Best_Mileage |-> MaxSkipNa(g("Mileage_kmpl")),
      Worst_Mileage |-> MinSkipNa(g("Mileage_kmpl")),
      Refills |-> Count(CountNotNa(g("Fuel_Litres"))),
      Overall_Mileage |-> Unset]

(* one row of the monthly table (lines 75-83) *)
AggRow(frame, key) ==
  LET g(name) == FilterBy(Column(frame, name), Column(frame, "Month"), key)
  IN [Month |-> key,
      Total_Distance |-> Num(SumSkipNa(g("Distance"))),
      Total_Fuel_Litres |-> Num(SumSkipNa(g("Fuel_Litres"))),
      Total_Spent |-> Num(SumSkipNa(g("Amount_Spent"))),
      Avg_Mileage |-> MeanSkipNa(g("Mileage_kmpl")),
      Best_Mileage |-> MaxSkipNa(g("Mileage_kmpl")),
      Worst_Mileage |-> MinSkipNa(g("Mileage_kmpl")),
      Refills |-> Count(CountNotNa(g("Fuel_Litres"))),
      Overall_Mileage |-> Unset]

GroupByAgg(frame) ==
  LET keys == SortedKeys(GroupKeys(Column(frame, "Month")))
  IN [i \in 1..Len(keys) |-> AggRow(frame, keys[i])]

(* (Total_Distance / Total_Fuel_Litres).round(2) on float columns (line 85): *)
(* a zero divisor gives inf, -inf or NaN, never an exception                 *)
OverallMileage(dist, fuel) ==
  IF fuel.v = 0
  THEN (IF dist.v > 0 THEN PosInf ELSE IF dist.v < 0 THEN NegInf ELSE NaN)
  ELSE Num(RoundHalfEven(100 * dist.v, fuel.v))

(* sum(...) / (len(df) - SKIP_FIRST_MILEAGE) for a nonzero divisor (line 64) *)
PyDiv(s, den) == IF s.k = "num" THEN Frac(s.v, den) ELSE NaN

(* ------------------------------------------------------------ input tables *)
ColumnOrder == <<"Date", "Odometer", "Fuel_Litres", "Amount_Spent", "Notes">>

Chars(a, b, c, d, e, f, g) == <<a, b, c, d, e, f, g>>

DateTexts == {Str(Chars("2", "0", "2", "4", "-", "0", "1")),
              Str(Chars("2", "0", "2", "4", "-", "0", "2")),
              Str(Chars("2", "0", "2", "4", "-", "1", "3"))}

OdometerCells == {Num(100000), Num(105000)}

FuelCells == {NaN, Num(0), Num(350)}

AmountCells == {Num(16000)}

NoteCells == {Str(<<"x">>)}

CellsOf(name) ==
  CASE name = "Date" -> DateTexts
    [] name = "Odometer" -> OdometerCells
    [] name = "Fuel_Litres" -> FuelCells
    [] name = "Amount_Spent" -> AmountCells
    [] OTHER -> NoteCells

(* a table with exactly the four required columns *)
Table(m, d, o, f, a) ==
  [n |-> m, cols |-> SubSeq(ColumnOrder, 1, 4),
   data |-> [Date |-> d, Odometer |-> o, Fuel_Litres |-> f, Amount_Spent |-> a]]

(* one-row tables that lack at least one required column, with or without   *)
(* an unrelated extra column                                                 *)
InvalidTables ==
  {[n |-> 1, cols |-> SelectSeq(ColumnOrder, LAMBDA c : c \in S),
    data |-> [c \in S |-> <<CHOOSE x \in CellsOf(c) : TRUE>>]] :
     S \in {T \in SUBSET Range(ColumnOrder) : ~(expected_cols \subseteq T)}}

(* ------------------------------------------------------------------ state *)
Init ==
  /\ \/ \E m \in 0..MaxRows :
          \E d \in [1..m -> DateTexts], o \in [1..m -> OdometerCells],
             f \in [1..m -> FuelCells], a \in [1..m -> AmountCells] :
               raw = Table(m, d, o, f, a)
     \/ raw \in InvalidTables
  /\ df = raw
  /\ total_litres = Unset
  /\ total_spent = Unset
  /\ total_distance = Unset
  /\ avg_mileage = Unset
  /\ monthly = <<>>
  /\ out = <<>>
  /\ pc = "validate"

(* lines 126-127: the handler reports the exception and the script ends *)
Raise(exc) ==
  /\ out' = Append(out, ExceptionElem(exc))
  /\ pc' = "done"

(* lines 34-38: the schema check *)
Validate ==
  /\ pc = "validate"
  /\ IF ~(expected_cols \subseteq Range(df.cols))
     THEN /\ out' = Append(out, SchemaErrorElem(df))
          /\ pc' = "done"
     ELSE /\ pc' = "totals"
          /\ out' = out
  /\ UNCHANGED <<raw, df, total_litres, total_spent, total_distance, avg_mileage, monthly>>

(* lines 39-48: the three totals, then their metrics; list(...)[-1] raises  *)
(* IndexError on an empty table, after the two sums were bound               *)
Totals ==
  /\ pc = "totals"
  /\ total_litres' = Num(SumSkipNa(Column(df, "Fuel_Litres")))
  /\ total_spent' = Num(SumSkipNa(Column(df, "Amount_Spent")))
  /\ IF df.n = 0
     THEN /\ Raise("IndexError")
          /\ total_distance' = total_distance
     ELSE /\ total_distance' = Column(df, "Odometer")[df.n]
          /\ out' = out \o <<Elem("metric", "Total Distance (km)"),
                             Elem("metric", "Fuel (Litres)"),
                             Elem("metric", "Total Spent")>>
          /\ pc' = "parse_date"
  /\ UNCHANGED <<raw, df, avg_mileage, monthly>>

(* lines 50-53: the Date column is replaced by its parse; a warning if any  *)
(* date is missing afterwards                                                *)
ParseDate ==
  /\ pc = "parse_date"
  /\ LET parsed == to_datetime(Column(df, "Date"))
     IN /\ df' = SetCol(df, "Date", parsed)
        /\ out' = IF \E i \in 1..Len(parsed) : isna(parsed[i])
                  THEN Append(out, Elem("warning", "Some dates failed to parse"))
                  ELSE out
  /\ pc' = "distance"
  /\ UNCHANGED <<raw, total_litres, total_spent, total_distance, avg_mileage, monthly>>

(* lines 55-56 *)
ComputeDistance ==
  /\ pc = "distance"
  /\ df' = SetCol(df, "Distance", fillna0(diff(Column(df, "Odometer"))))
  /\ pc' = "mileage"
  /\ UNCHANGED <<raw, total_litres, total_spent, total_distance, avg_mileage, monthly, out>>

(* lines 58-62 *)
ComputeMileage ==
  /\ pc = "mileage"
  /\ df' = SetCol(df, "Mileage_kmpl",
                  [i \in 1..df.n |-> MileageOf(Column(df, "Distance")[i],
                                               Column(df, "Fuel_Litres")[i])])
  /\ pc' = "avg"
  /\ UNCHANGED <<raw, total_litres, total_spent, total_distance, avg_mileage, monthly, out>>

(* lines 64-66: the average over the rows after the skipped ones; an int    *)
(* divided by zero raises ZeroDivisionError                                  *)
AvgMileage ==
  /\ pc = "avg"
  /\ LET s == PySum(SliceFrom(Column(df, "Mileage_kmpl"), SKIP_FIRST_MILEAGE))
         den == df.n - SKIP_FIRST_MILEAGE
     IN IF den = 0
        THEN /\ Raise("ZeroDivisionError")
             /\ avg_mileage' = avg_mileage
        ELSE /\ avg_mileage' = PyDiv(s, den)
             /\ out' = Append(out, Elem("metric", "Mileage (km/L)"))
             /\ pc' = "show_raw"
  /\ UNCHANGED <<raw, df, total_litres, total_spent, total_distance, monthly>>

(* lines 68-69 *)
ShowRaw ==
  /\ pc = "show_raw"
  /\ out' = Append(out, Elem("dataframe", "Raw Data"))
  /\ pc' = "month"
  /\ UNCHANGED <<raw, df, total_litres, total_spent, total_distance, avg_mileage, monthly>>

(* lines 71-72 *)
MonthPeriod ==
  /\ pc = "month"
  /\ df' = SetCol(df, "Month", to_period(Column(df, "Date")))
  /\ pc' = "monthly"
  /\ UNCHANGED <<raw, total_litres, total_spent, total_distance, avg_mileage, monthly, out>>

(* lines 74-83 *)
MonthlySummary ==
  /\ pc = "monthly"
  /\ monthly' = GroupByAgg(df)
  /\ pc' = "overall"
  /\ UNCHANGED <<raw, df, total_litres, total_spent, total_distance, avg_mileage, out>>

(* lines 85-88 *)
OverallStep ==
  /\ pc = "overall"
  /\ monthly' = [i \in 1..Len(monthly) |->
                   [monthly[i] EXCEPT !.Overall_Mileage =
                      OverallMileage(monthly[i].Total_Distance, monthly[i].Total_Fuel_Litres)]]
  /\ out' = Append(out, Elem("dataframe", "Monthly Summary"))
  /\ pc' = "export"
  /\ UNCHANGED <<raw, df, total_litres, total_spent, total_distance, avg_mileage>>

(* lines 90-124: two download buttons and two charts *)
Export ==
  /\ pc = "export"
  /\ out' = out \o <<Elem("download", "fuel_log_detailed.csv"),
                     Elem("download", "fuel_log_monthly.csv"),
                     Elem("plot", "Overall Monthly Mileage"),
                     Elem("plot", "Monthly Fuel Spend")>>
  /\ pc' = "done"
  /\ UNCHANGED <<raw, df, total_litres, total_spent, total_distance, avg_mileage, monthly>>

Next ==
  \/ Validate
  \/ Totals
  \/ ParseDate
  \/ ComputeDistance
  \/ ComputeMileage
  \/ AvgMileage
  \/ ShowRaw
  \/ MonthPeriod
  \/ MonthlySummary
  \/ OverallStep
  \/ Export

Spec == Init /\ [][Next]_vars

(* ============================================================ properties *)
SchemaOK == expected_cols \subseteq Range(raw.cols)

Done == pc = "done"

ErrorShown == \E i \in 1..Len(out) : out[i].kind = "error"

(* the script ran to its last line *)
Completed == Done /\ Len(out) > 0 /\ out[Len(out)].kind = "plot"

HasCol(name) == name \in Range(df.cols)

MonthlyReady == pc \in {"overall", "export"} \/ Completed

RECURSIVE SumF(_, _)
SumF(f, S) ==
  IF S = {} THEN 0
  ELSE LET x == CHOOSE y \in S : TRUE IN f[x] + SumF(f, S \ {x})

Rows == 1..raw.n

(* the input values, read off the table as it was loaded *)
RawOdo == [i \in Rows |-> raw.data["Odometer"][i].v]

RawFuelPresent(i) == raw.data["Fuel_Litres"][i].k = "num"

RawFuel == [i \in Rows |-> IF RawFuelPresent(i) THEN raw.data["Fuel_Litres"][i].v ELSE 0]

RawSpent == [i \in Rows |-> raw.data["Amount_Spent"][i].v]

ExpectedDistance == [i \in Rows |-> IF i = 1 THEN 0 ELSE RawOdo[i] - RawOdo[i - 1]]

Jan == Str(Chars("2", "0", "2", "4", "-", "0", "1"))

Feb == Str(Chars("2", "0", "2", "4", "-", "0", "2"))

(* the calendar month a date text denotes, <<0, 0>> if it denotes none *)
ExpectedMonth(c) ==
  IF c = Jan THEN <<2024, 1>> ELSE IF c = Feb THEN <<2024, 2>> ELSE <<0, 0>>

BadDateRows == {i \in Rows : ExpectedMonth(raw.data["Date"][i]) = <<0, 0>>}

RowsOfMonth(ym) == {i \in Rows : ExpectedMonth(raw.data["Date"][i]) = ym}

NoDerivedOutput ==
  /\ df = raw
  /\ monthly = <<>>
  /\ total_litres = Unset /\ total_spent = Unset
  /\ total_distance = Unset /\ avg_mileage = Unset

C2_InsufficientData ==
  (Done /\ SchemaOK /\ raw.n <= SKIP_FIRST_MILEAGE) =>
     /\ avg_mileage = Unset
     /\ \A i \in 1..Len(out) :
          out[i].kind = "error" => out[i].label = "InsufficientDataError"
     /\ ErrorShown

C4_Mileage ==
  HasCol("Mileage_kmpl") =>
    \A i \in Rows :
      Column(df, "Mileage_kmpl")[i] =
        IF RawFuelPresent(i) /\ RawFuel[i] # 0
        THEN Num(RoundHalfEven(100 * ExpectedDistance[i], RawFuel[i]))
        ELSE Num(0)

(* C5: records keep the input order; record 0 has distance 0 and every later *)
(* record has odometer[i] - odometer[i-1], unclamped, so a falling odometer  *)
(* gives a negative distance and, with nonzero fuel, a negative mileage.     *)
C5_Distance ==
  HasCol("Distance") =>
    /\ df.n = raw.n
    /\ \A c \in {"Odometer", "Fuel_Litres", "Amount_Spent"} : Column(df, c) = raw.data[c]
    /\ \A i \in Rows :
         /\ Column(df, "Distance")[i] = Num(ExpectedDistance[i])
         /\ i = 1 => Column(df, "Distance")[i].v = 0
         /\ (i > 1 /\ RawOdo[i] < RawOdo[i - 1]) => Column(df, "Distance")[i].v < 0
         /\ (/\ HasCol("Mileage_kmpl")
             /\ Column(df, "Distance")[i].v < 0
             /\ RawFuelPresent(i) /\ RawFuel[i] # 0)
              => (Column(df, "Mileage_kmpl")[i].k = "num" /\ Column(df, "Mileage_kmpl")[i].v < 0)

C5_Witness ==
  /\ HasCol("Mileage_kmpl")
  /\ raw.n >= 3
  /\ Column(df, "Distance")[2].v > 0
  /\ Column(df, "Distance")[3].v < 0
  /\ Column(df, "Mileage_kmpl")[3].k = "num"
  /\ Column(df, "Mileage_kmpl")[3].v < 0

(* C6: an unparseable date does not abort the run: the record gets the       *)
(* missing-date marker, a warning is shown, the record is in no monthly      *)
(* summary (no month's totals or refill count include it), and its fuel and  *)
(* amount are still part of the rollup totals.                               *)
C6_BadDate ==
  /\ (SchemaOK /\ raw.n > 0 /\ pc \notin {"validate", "totals", "parse_date"}) =>
        /\ \A i \in BadDateRows : Column(df, "Date")[i] = NaT
        /\ (BadDateRows # {}) =>
              \E k \in 1..Len(out) : out[k].kind = "warning"
        /\ total_litres = Num(SumF(RawFuel, Rows))
        /\ total_spent = Num(SumF(RawSpent, Rows))
  /\ (Done /\ SchemaOK /\ raw.n > SKIP_FIRST_MILEAGE) => (Completed /\ ~ErrorShown)
  /\ MonthlyReady =>
        \A j \in 1..Len(monthly) :
          /\ monthly[j].Month.k = "period"
          /\ monthly[j].Total_Fuel_Litres = Num(SumF(RawFuel, RowsOfMonth(monthly[j].Month.v)))
          /\ monthly[j].Total_Spent = Num(SumF(RawSpent, RowsOfMonth(monthly[j].Month.v)))
          /\ monthly[j].Total_Distance = Num(SumF(ExpectedDistance, RowsOfMonth(monthly[j].Month.v)))
          /\ monthly[j].Refills.v =
               Cardinality({i \in RowsOfMonth(monthly[j].Month.v) : RawFuelPresent(i)})

C6_Witness ==
  /\ Completed
  /\ raw.n = 3
  /\ BadDateRows = {2}
  /\ RawFuel[2] > 0
  /\ Len(monthly) = 2
  /\ total_litres.v > monthly[1].Total_Fuel_Litres.v + monthly[2].Total_Fuel_Litres.v
  /\ \E k \in 1..Len(out) : out[k].kind = "warning"

C8_MonthlyDistance ==
  MonthlyReady =>
    /\ {monthly[j].Month.v : j \in 1..Len(monthly)} =
         {ExpectedMonth(raw.data["Date"][i]) : i \in Rows \ BadDateRows}
    /\ \A j1, j2 \in 1..Len(monthly) : monthly[j1].Month = monthly[j2].Month => j1 = j2
    /\ \A j \in 1..Len(monthly) :
         monthly[j].Total_Distance =
           Num(SumF(ExpectedDistance, RowsOfMonth(monthly[j].Month.v)))

C8_Witness ==
  /\ Completed
  /\ raw.n = 3
  /\ raw.data["Date"] = <<Jan, Jan, Feb>>
  /\ RawOdo = <<100000, 105000, 100000>>
  /\ Len(monthly) = 2
  /\ monthly[1].Total_Distance = Num(5000)
  /\ monthly[2].Total_Distance = Num(-5000)

(* C9: a run leaves the input table as it was: every original column holds  *)
(* its original values and no column has been added.                         *)
C9_InputUnchanged == Done => df = raw

(* C10: a run that ends in an error has shown nothing but that error.        *)
C10_ErrorOnly == (Done /\ ErrorShown) => Len(out) = 1

====
